---- MODULE Spec2Model ----
(***************************************************************************)
(* Model of the fitwin-crewai measurement service.                         *)
(*                                                                         *)
(*  - Resilient remote invoker (agents/tools/measurement_tools.py):        *)
(*    CircuitBreaker, _post_with_retry, validate_measurements and          *)
(*    recommend_sizes, with calls issued one at a time (Spec).             *)
(*  - Normalization engine (backend/app/core/validation.py):               *)
(*    normalize_and_validate applied to bounded requests (NormSpec).       *)
(***************************************************************************)
EXTENDS Integers, Sequences, FiniteSets, TLC

VARIABLES
    validate_breaker,   \* module-level CircuitBreaker of validate_measurements
    recommend_breaker,  \* module-level CircuitBreaker of recommend_sizes
    pc,                 \* position of the tool call in flight
    cur_op,             \* which tool the call in flight is
    attempt,            \* loop variable of _post_with_retry
    last,               \* outcome of the latest requests.post
    attempt_log,        \* outcomes of all requests.post of the call in flight
    result,             \* dict returned by the latest finished tool call
    call_count,         \* requests.post calls made by the call in flight
    sleeps,             \* time.sleep durations of the call in flight
    pre,                \* both breakers as they were when the call started
    streak,             \* per tool: consecutive failed calls just before now
    fresh,              \* per tool: the streak started at a closed, zero breaker
    call_streak,        \* streak of the tool when the call in flight started
    call_fresh,         \* fresh of the tool when the call in flight started
    req,                \* request handed to normalize_and_validate
    resp,               \* what normalize_and_validate produced for req
    prev_resp,          \* what the previous invocation on req produced
    performed,          \* core functions the endpoints have called, in order
    callers,            \* concurrent callers of the tools: position and locals of each
    counted             \* per tool: failures counted since the last call_succeeded

invoker_vars == <<validate_breaker, recommend_breaker, pc, cur_op, attempt, last,
                  attempt_log,
                  result, call_count, sleeps, pre, streak, fresh,
                  call_streak, call_fresh>>
norm_vars == <<req, resp, prev_resp, performed>>
vars == <<validate_breaker, recommend_breaker, pc, cur_op, attempt, last,
          attempt_log, result, call_count, sleeps, pre, streak, fresh,
          call_streak, call_fresh, req, resp,
          prev_resp, performed, callers, counted>>

None == "None"

-----------------------------------------------------------------------------
(* Configuration of measurement_tools.py                                   *)

MAX_RETRIES == 1

DEFAULT_FAILURE_THRESHOLD == 3

RATE_LIMIT_SLEEP == 5

SERVER_ERROR_CODES == {500, 502, 503, 504}

\* Status codes the downstream may answer with; 401 and 404 stand for the
\* statuses the tools have no branch for.
StatusCodes == {200, 401, 404, 422, 429} \cup SERVER_ERROR_CODES

\* What one requests.post can do: return a response, raise Timeout, or
\* raise another RequestException (connection failure).
Outcomes ==
    [kind : {"response"}, status_code : StatusCodes]
    \cup {[kind |-> "Timeout", status_code |-> 0],
          [kind |-> "RequestException", status_code |-> 0]}

NoOutcome == [kind |-> None, status_code |-> 0]

Tools == {"validate_measurements", "recommend_sizes"}

\* The closed error taxonomy of the spec's ErrorEnvelope.
ErrorTypes == {"validation_error", "authentication_error", "server_error",
               "timeout_error", "rate_limit_error", "circuit_breaker_error",
               "connection_error", "unexpected_error"}

\* The result types that count as a failed call for the breaker.
FailureTypes == {"server_error", "timeout_error", "connection_error",
                 "unexpected_error"}

-----------------------------------------------------------------------------
(* class CircuitBreaker                                                    *)

CircuitBreaker(failure_threshold) ==
    [failure_threshold |-> failure_threshold,
     failure_count |-> 0,
     is_open |-> FALSE]

\* Variant: opens only once the count exceeds the threshold.
call_failed_late_open(self) ==
    LET n == self.failure_count + 1
    IN  [self EXCEPT !.failure_count = n,
                     !.is_open = IF n > self.failure_threshold THEN TRUE ELSE @]

\* Variant: counts every requests.post of the call instead of the call.
call_failed_per_attempt(self) ==
    LET n == self.failure_count + call_count
    IN  [self EXCEPT !.failure_count = n,
                     !.is_open = IF n >= self.failure_threshold THEN TRUE ELSE @]

\* Variant: the count starts over when the breaker opens.
call_failed_restarts_count(self) ==
    LET n == self.failure_count + 1
    IN  IF n >= self.failure_threshold
        THEN [self EXCEPT !.failure_count = 0, !.is_open = TRUE]
        ELSE [self EXCEPT !.failure_count = n]

call_failed(self) ==
    LET n == self.failure_count + 1
    IN  [self EXCEPT !.failure_count = n,
                     !.is_open = IF n >= self.failure_threshold THEN TRUE ELSE @]

\* Variant: closes the breaker but keeps the count.
call_succeeded_keeps_count(self) ==
    [self EXCEPT !.is_open = FALSE]

call_succeeded(self) ==
    [self EXCEPT !.failure_count = 0, !.is_open = FALSE]

\* Variant: the gate lets every call through.
can_proceed_always(self) == TRUE

\* Variant: the gate compares the count, off by one, instead of reading is_open.
can_proceed_by_count(self) == self.failure_count <= self.failure_threshold

can_proceed(self) == ~self.is_open

-----------------------------------------------------------------------------
(* _post_with_retry: what one iteration of the loop decides after the       *)
(* requests.post of that iteration produced `outcome`.                      *)

\* 2 ** attempt
Pow2(n) == 2 ^ n

\* Variant: a timeout is raised at once instead of being retried.
post_with_retry_step_no_timeout_retry(outcome, att) ==
    IF outcome.kind = "response"
    THEN IF outcome.status_code \in SERVER_ERROR_CODES /\ att < MAX_RETRIES
         THEN [do |-> "sleep", secs |-> Pow2(att)]
         ELSE IF outcome.status_code = 429 /\ att < MAX_RETRIES
         THEN [do |-> "sleep", secs |-> RATE_LIMIT_SLEEP]
         ELSE [do |-> "return", secs |-> 0]
    ELSE [do |-> "raise", secs |-> 0]

\* Variant: every exception is retried like a timeout.
post_with_retry_step_retry_any_exception(outcome, att) ==
    IF outcome.kind = "response"
    THEN IF outcome.status_code \in SERVER_ERROR_CODES /\ att < MAX_RETRIES
         THEN [do |-> "sleep", secs |-> Pow2(att)]
         ELSE IF outcome.status_code = 429 /\ att < MAX_RETRIES
         THEN [do |-> "sleep", secs |-> RATE_LIMIT_SLEEP]
         ELSE [do |-> "return", secs |-> 0]
    ELSE IF att < MAX_RETRIES
    THEN [do |-> "sleep", secs |-> Pow2(att)]
    ELSE [do |-> "raise", secs |-> 0]

\* Variant: a server error is retried on the last iteration as well.
post_with_retry_step_sleeps_on_last(outcome, att) ==
    IF outcome.kind = "response"
    THEN IF outcome.status_code \in SERVER_ERROR_CODES /\ att <= MAX_RETRIES
         THEN [do |-> "sleep", secs |-> Pow2(att)]
         ELSE IF outcome.status_code = 429 /\ att < MAX_RETRIES
         THEN [do |-> "sleep", secs |-> RATE_LIMIT_SLEEP]
         ELSE [do |-> "return", secs |-> 0]
    ELSE IF outcome.kind = "Timeout"
    THEN IF att < MAX_RETRIES
         THEN [do |-> "sleep", secs |-> Pow2(att)]
         ELSE [do |-> "raise", secs |-> 0]
    ELSE [do |-> "raise", secs |-> 0]

\* Variant: a 429 is followed by the exponential backoff, not the fixed wait.
post_with_retry_step_backoff_on_429(outcome, att) ==
    IF outcome.kind = "response"
    THEN IF outcome.status_code \in SERVER_ERROR_CODES \cup {429} /\ att < MAX_RETRIES
         THEN [do |-> "sleep", secs |-> Pow2(att)]
         ELSE [do |-> "return", secs |-> 0]
    ELSE IF outcome.kind = "Timeout"
    THEN IF att < MAX_RETRIES
         THEN [do |-> "sleep", secs |-> Pow2(att)]
         ELSE [do |-> "raise", secs |-> 0]
    ELSE [do |-> "raise", secs |-> 0]

post_with_retry_step(outcome, att) ==
    IF outcome.kind = "response"
    THEN IF outcome.status_code \in SERVER_ERROR_CODES /\ att < MAX_RETRIES
         THEN [do |-> "sleep", secs |-> Pow2(att)]
         ELSE IF outcome.status_code = 429 /\ att < MAX_RETRIES
         THEN [do |-> "sleep", secs |-> RATE_LIMIT_SLEEP]
         ELSE [do |-> "return", secs |-> 0]
    ELSE IF outcome.kind = "Timeout"
    THEN IF att < MAX_RETRIES
         THEN [do |-> "sleep", secs |-> Pow2(att)]
         ELSE [do |-> "raise", secs |-> 0]
    ELSE [do |-> "raise", secs |-> 0]

-----------------------------------------------------------------------------
(* The part of each tool that follows _post_with_retry: it maps the         *)
(* response or exception to the returned dict and updates the breaker.      *)

\* Tokens for the JSON the downstream sent.
PayloadJson == "response.json()"
DetailJson == "response.json().get(detail)"

validate_measurements_finish(breaker, outcome) ==
    IF outcome.kind = "Timeout"
    THEN [breaker |-> call_failed(breaker),
          result |-> [error |-> "Request timed out", type |-> "timeout_error"]]
    ELSE IF outcome.kind = "RequestException"
    THEN [breaker |-> call_failed(breaker),
          result |-> [error |-> "Request failed", type |-> "connection_error"]]
    ELSE IF outcome.status_code = 200
    THEN [breaker |-> call_succeeded(breaker),
          result |-> [decoded |-> PayloadJson]]
    ELSE IF outcome.status_code = 422
    THEN [breaker |-> call_succeeded(breaker),
          result |-> [error |-> DetailJson, status_code |-> 422]]
    ELSE IF outcome.status_code \in SERVER_ERROR_CODES
    THEN [breaker |-> call_failed(breaker),
          result |-> [error |-> "Server error after attempts",
                      status_code |-> outcome.status_code,
                      type |-> "server_error"]]
    ELSE IF outcome.status_code = 429
    THEN [breaker |-> breaker,
          result |-> [error |-> "Rate limit exceeded",
                      status_code |-> 429,
                      type |-> "rate_limit_error"]]
    ELSE [breaker |-> call_failed(breaker),
          result |-> [error |-> "Unexpected status code",
                      status_code |-> outcome.status_code,
                      type |-> "unexpected_error"]]

\* Variant: without the 429 branch a rate-limited call falls through to the
\* unexpected-status tail.
recommend_sizes_finish_no_429(breaker, outcome) ==
    IF outcome.kind = "Timeout"
    THEN [breaker |-> call_failed(breaker),
          result |-> [error |-> "Request timed out", type |-> "timeout_error"]]
    ELSE IF outcome.kind = "RequestException"
    THEN [breaker |-> call_failed(breaker),
          result |-> [error |-> "Request failed", type |-> "connection_error"]]
    ELSE IF outcome.status_code = 200
    THEN [breaker |-> call_succeeded(breaker),
          result |-> [decoded |-> PayloadJson]]
    ELSE IF outcome.status_code \in SERVER_ERROR_CODES
    THEN [breaker |-> call_failed(breaker),
          result |-> [error |-> "Server error after attempts",
                      status_code |-> outcome.status_code,
                      type |-> "server_error"]]
    ELSE [breaker |-> call_failed(breaker),
          result |-> [error |-> "Unexpected status code",
                      status_code |-> outcome.status_code,
                      type |-> "unexpected_error"]]

recommend_sizes_finish(breaker, outcome) ==
    IF outcome.kind = "Timeout"
    THEN [breaker |-> call_failed(breaker),
          result |-> [error |-> "Request timed out", type |-> "timeout_error"]]
    ELSE IF outcome.kind = "RequestException"
    THEN [breaker |-> call_failed(breaker),
          result |-> [error |-> "Request failed", type |-> "connection_error"]]
    ELSE IF outcome.status_code = 200
    THEN [breaker |-> call_succeeded(breaker),
          result |-> [decoded |-> PayloadJson]]
    ELSE IF outcome.status_code \in SERVER_ERROR_CODES
    THEN [breaker |-> call_failed(breaker),
          result |-> [error |-> "Server error after attempts",
                      status_code |-> outcome.status_code,
                      type |-> "server_error"]]
    ELSE IF outcome.status_code = 429
    THEN [breaker |-> breaker,
          result |-> [error |-> "Rate limit exceeded",
                      status_code |-> 429,
                      type |-> "rate_limit_error"]]
    ELSE [breaker |-> call_failed(breaker),
          result |-> [error |-> "Unexpected status code",
                      status_code |-> outcome.status_code,
                      type |-> "unexpected_error"]]

CircuitBreakerOpenResult ==
    [error |-> "Circuit breaker is open. Too many recent failures.",
     type |-> "circuit_breaker_error"]

NoResult == [none |-> TRUE]

-----------------------------------------------------------------------------
(* Bookkeeping of the history of calls (not program state).                 *)

IsFailure(res) == "type" \in DOMAIN res /\ res.type \in FailureTypes

\* streak/fresh of tool `op` after a call that started at breaker `b0`
\* returned `res`.
StreakAfter(op, b0, res) ==
    IF IsFailure(res) THEN streak[op] + 1 ELSE 0

FreshAfter(op, b0, res) ==
    IF IsFailure(res)
    THEN IF streak[op] = 0
         THEN b0.failure_count = 0 /\ ~b0.is_open
         ELSE fresh[op]
    ELSE FALSE

BreakerOf(op) ==
    IF op = "validate_measurements" THEN validate_breaker ELSE recommend_breaker

PreOf(op) ==
    IF op = "validate_measurements" THEN pre.validate ELSE pre.recommend

StartBookkeeping(op) ==
    /\ cur_op' = op
    /\ attempt' = 0
    /\ last' = NoOutcome
    /\ attempt_log' = <<>>
    /\ call_count' = 0
    /\ sleeps' = <<>>
    /\ pre' = [validate |-> validate_breaker, recommend |-> recommend_breaker]
    /\ call_streak' = streak[op]
    /\ call_fresh' = fresh[op]

Returned(op, res) ==
    /\ pc' = "done"
    /\ result' = res
    /\ streak' = [streak EXCEPT ![op] = StreakAfter(op, PreOf(op), res)]
    /\ fresh' = [fresh EXCEPT ![op] = FreshAfter(op, PreOf(op), res)]

-----------------------------------------------------------------------------
(* Actions of the invoker                                                   *)

\* validate_measurements is called: the pre-flight gate.
validate_measurements ==
    /\ pc \in {"idle", "done"}
    /\ StartBookkeeping("validate_measurements")
    /\ IF ~can_proceed(validate_breaker)
       THEN /\ pc' = "done"
            /\ result' = CircuitBreakerOpenResult
            /\ streak' = [streak EXCEPT !["validate_measurements"] = 0]
            /\ fresh' = [fresh EXCEPT !["validate_measurements"] = FALSE]
       ELSE /\ pc' = "attempting"
            /\ result' = NoResult
            /\ UNCHANGED <<streak, fresh>>
    /\ UNCHANGED <<validate_breaker, recommend_breaker, req, resp,
                   prev_resp, performed, callers, counted>>

\* recommend_sizes is called: the pre-flight gate.
recommend_sizes ==
    /\ pc \in {"idle", "done"}
    /\ StartBookkeeping("recommend_sizes")
    /\ IF ~can_proceed(recommend_breaker)
       THEN /\ pc' = "done"
            /\ result' = CircuitBreakerOpenResult
            /\ streak' = [streak EXCEPT !["recommend_sizes"] = 0]
            /\ fresh' = [fresh EXCEPT !["recommend_sizes"] = FALSE]
       ELSE /\ pc' = "attempting"
            /\ result' = NoResult
            /\ UNCHANGED <<streak, fresh>>
    /\ UNCHANGED <<validate_breaker, recommend_breaker, req, resp,
                   prev_resp, performed, callers, counted>>

\* One iteration of the loop of _post_with_retry: requests.post and the
\* branch on what it produced.
post_with_retry ==
    /\ pc = "attempting"
    /\ \E outcome \in Outcomes :
          LET d == post_with_retry_step(outcome, attempt)
          IN  /\ last' = outcome
              /\ attempt_log' = Append(attempt_log, outcome)
              /\ call_count' = call_count + 1
              /\ IF d.do = "sleep"
                 THEN /\ pc' = "sleeping"
                      /\ sleeps' = Append(sleeps, d.secs)
                 ELSE /\ pc' = IF d.do = "return" THEN "returned" ELSE "raised"
                      /\ sleeps' = sleeps
    /\ UNCHANGED <<validate_breaker, recommend_breaker, cur_op, attempt, result,
                   pre, streak, fresh, call_streak, call_fresh, req, resp,
                   prev_resp, performed, callers, counted>>

\* time.sleep is over and `continue` takes the loop to its next iteration;
\* a loop that runs out of iterations falls through to the raise below it.
sleep_continue ==
    /\ pc = "sleeping"
    /\ attempt' = attempt + 1
    /\ pc' = IF attempt + 1 <= MAX_RETRIES THEN "attempting" ELSE "loop_exit"
    /\ UNCHANGED <<validate_breaker, recommend_breaker, cur_op, last, result,
                   attempt_log, call_count, sleeps, pre, streak, fresh, call_streak,
                   call_fresh, req, resp,
                   prev_resp, performed, callers, counted>>

\* validate_measurements after _post_with_retry returned or raised.
validate_measurements_return ==
    /\ pc \in {"returned", "raised"}
    /\ cur_op = "validate_measurements"
    /\ LET f == validate_measurements_finish(validate_breaker, last)
       IN  /\ validate_breaker' = f.breaker
           /\ Returned("validate_measurements", f.result)
    /\ UNCHANGED <<recommend_breaker, cur_op, attempt, last, attempt_log,
                   call_count, sleeps,
                   pre, call_streak, call_fresh, req, resp,
                   prev_resp, performed, callers, counted>>

\* Variant: recommend_sizes records its outcome on validate_breaker, as if
\* the two tools shared one breaker.
recommend_sizes_return_shared_breaker ==
    /\ pc \in {"returned", "raised"}
    /\ cur_op = "recommend_sizes"
    /\ LET f == recommend_sizes_finish(validate_breaker, last)
       IN  /\ validate_breaker' = f.breaker
           /\ Returned("recommend_sizes", f.result)
    /\ UNCHANGED <<recommend_breaker, cur_op, attempt, last, attempt_log,
                   call_count, sleeps,
                   pre, call_streak, call_fresh, req, resp,
                   prev_resp, performed, callers, counted>>

\* recommend_sizes after _post_with_retry returned or raised.
recommend_sizes_return ==
    /\ pc \in {"returned", "raised"}
    /\ cur_op = "recommend_sizes"
    /\ LET f == recommend_sizes_finish(recommend_breaker, last)
       IN  /\ recommend_breaker' = f.breaker
           /\ Returned("recommend_sizes", f.result)
    /\ UNCHANGED <<validate_breaker, cur_op, attempt, last, attempt_log,
                   call_count, sleeps,
                   pre, call_streak, call_fresh, req, resp,
                   prev_resp, performed, callers, counted>>

-----------------------------------------------------------------------------
(* Several threads calling the tools at once. The two breakers are module   *)
(* globals shared by all of them and CircuitBreaker takes no lock, so the   *)
(* statements of call_failed and call_succeeded interleave.                 *)

Callers == {"t1", "t2"}

\* The threads are followed while failure_count is below this value: a stale
\* call_succeeded can close a breaker whose count keeps growing.
MaxFailureCount == 4

IdleCaller ==
    [pc |-> "idle", op |-> None, attempt |-> 0, last |-> NoOutcome, loaded |-> 0]

\* What the downstream answers to the threads.
ThreadOutcomes ==
    {o \in Outcomes : o.kind = "Timeout"
                      \/ (o.kind = "response" /\ o.status_code \in {200, 429, 500})}

\* self.failure_count += 1 reads the attribute ...
call_failed_load(self) == self.failure_count

\* ... and stores the value read plus one.
call_failed_store(self, loaded) == [self EXCEPT !.failure_count = loaded + 1]

\* if self.failure_count >= self.failure_threshold: self.is_open = True
call_failed_check(self) ==
    [self EXCEPT !.is_open = IF self.failure_count >= self.failure_threshold
                             THEN TRUE ELSE @]

\* self.failure_count = 0
call_succeeded_reset(self) == [self EXCEPT !.failure_count = 0]

\* self.is_open = False
call_succeeded_close(self) == [self EXCEPT !.is_open = FALSE]

\* What the tool does once _post_with_retry is over.
FinishOf(op, breaker, outcome) ==
    IF op = "validate_measurements"
    THEN validate_measurements_finish(breaker, outcome)
    ELSE recommend_sizes_finish(breaker, outcome)

\* Which breaker method the tool calls for the outcome.
BreakerCall(op, outcome) ==
    LET probe == [CircuitBreaker(DEFAULT_FAILURE_THRESHOLD) EXCEPT !.failure_count = 1]
        f == FinishOf(op, probe, outcome)
    IN  IF f.breaker = call_failed(probe) THEN "call_failed"
        ELSE IF f.breaker = call_succeeded(probe) THEN "call_succeeded"
        ELSE None

SetBreaker(op, b) ==
    IF op = "validate_measurements"
    THEN validate_breaker' = b /\ UNCHANGED recommend_breaker
    ELSE recommend_breaker' = b /\ UNCHANGED validate_breaker

\* Bookkeeping (not program state): the failures whose update of `op` has
\* landed since the last call_succeeded (n, which stops at MaxFailureCount),
\* and whether no call_succeeded has overlapped them.

NoCount == [n |-> 0, clean |-> TRUE]

StaleLoad(c, op) ==
    \E d \in Callers \ {c} : callers[d].op = op /\ callers[d].pc = "call_failed_store"

single_caller_vars == <<pc, cur_op, attempt, last, attempt_log, result, call_count,
                        sleeps, pre, streak, fresh, call_streak, call_fresh>>

\* Thread c calls a tool: the pre-flight gate.
thread_call(c) ==
    /\ callers[c].pc = "idle"
    /\ \E op \in Tools :
          /\ BreakerOf(op).failure_count < MaxFailureCount
          /\ callers' = [callers EXCEPT ![c] =
              IF ~can_proceed(BreakerOf(op))
              THEN IdleCaller
              ELSE [IdleCaller EXCEPT !.pc = "attempting", !.op = op]]
    /\ UNCHANGED <<validate_breaker, recommend_breaker, counted,
                   single_caller_vars, norm_vars>>

\* One iteration of the loop of _post_with_retry in thread c.
thread_post_with_retry(c) ==
    /\ callers[c].pc = "attempting"
    /\ \E outcome \in ThreadOutcomes :
          LET d == post_with_retry_step(outcome, callers[c].attempt)
          IN  callers' = [callers EXCEPT
                  ![c].last = IF d.do = "sleep" THEN NoOutcome ELSE outcome,
                  ![c].attempt = IF d.do = "sleep" THEN @ ELSE 0,
                  ![c].pc = IF d.do = "sleep" THEN "sleeping" ELSE "finishing"]
    /\ UNCHANGED <<validate_breaker, recommend_breaker, counted,
                   single_caller_vars, norm_vars>>

\* time.sleep is over in thread c.
thread_sleep_continue(c) ==
    /\ callers[c].pc = "sleeping"
    /\ callers' = [callers EXCEPT ![c].attempt = @ + 1, ![c].pc = "attempting"]
    /\ UNCHANGED <<validate_breaker, recommend_breaker, counted,
                   single_caller_vars, norm_vars>>

\* The tool returns without touching the breaker (429).
thread_return(c) ==
    /\ callers[c].pc = "finishing"
    /\ BreakerCall(callers[c].op, callers[c].last) = None
    /\ callers' = [callers EXCEPT ![c] = IdleCaller]
    /\ UNCHANGED <<validate_breaker, recommend_breaker, counted,
                   single_caller_vars, norm_vars>>

\* call_failed in thread c, statement by statement.
thread_call_failed_load(c) ==
    /\ callers[c].pc = "finishing"
    /\ BreakerCall(callers[c].op, callers[c].last) = "call_failed"
    /\ callers' = [callers EXCEPT
           ![c].pc = "call_failed_store",
           ![c].last = NoOutcome,
           ![c].loaded = call_failed_load(BreakerOf(callers[c].op))]
    /\ UNCHANGED <<validate_breaker, recommend_breaker, counted,
                   single_caller_vars, norm_vars>>

thread_call_failed_store(c) ==
    /\ callers[c].pc = "call_failed_store"
    /\ SetBreaker(callers[c].op,
                  call_failed_store(BreakerOf(callers[c].op), callers[c].loaded))
    /\ callers' = [callers EXCEPT ![c].pc = "call_failed_check", ![c].loaded = 0]
    /\ counted' = [counted EXCEPT ![callers[c].op] =
                       IF @.clean /\ @.n < MaxFailureCount
                       THEN [n |-> @.n + 1, clean |-> TRUE] ELSE @]
    /\ UNCHANGED <<single_caller_vars, norm_vars>>

thread_call_failed_check(c) ==
    /\ callers[c].pc = "call_failed_check"
    /\ SetBreaker(callers[c].op, call_failed_check(BreakerOf(callers[c].op)))
    /\ callers' = [callers EXCEPT ![c] = IdleCaller]
    /\ UNCHANGED <<counted, single_caller_vars, norm_vars>>

\* call_succeeded in thread c, statement by statement.
thread_call_succeeded_reset(c) ==
    /\ callers[c].pc = "finishing"
    /\ BreakerCall(callers[c].op, callers[c].last) = "call_succeeded"
    /\ SetBreaker(callers[c].op, call_succeeded_reset(BreakerOf(callers[c].op)))
    /\ callers' = [callers EXCEPT ![c].pc = "call_succeeded_close",
                                  ![c].last = NoOutcome]
    /\ counted' = [counted EXCEPT ![callers[c].op] =
                       [n |-> 0, clean |-> ~StaleLoad(c, callers[c].op)]]
    /\ UNCHANGED <<single_caller_vars, norm_vars>>

thread_call_succeeded_close(c) ==
    /\ callers[c].pc = "call_succeeded_close"
    /\ SetBreaker(callers[c].op, call_succeeded_close(BreakerOf(callers[c].op)))
    /\ callers' = [callers EXCEPT ![c] = IdleCaller]
    /\ counted' = [counted EXCEPT ![callers[c].op] =
                       IF @.n = 0 THEN @ ELSE [n |-> 0, clean |-> FALSE]]
    /\ UNCHANGED <<single_caller_vars, norm_vars>>

-----------------------------------------------------------------------------

NoRequest == [none |-> TRUE]

InvokerInit ==
    /\ validate_breaker = CircuitBreaker(DEFAULT_FAILURE_THRESHOLD)
    /\ recommend_breaker = CircuitBreaker(DEFAULT_FAILURE_THRESHOLD)
    /\ pc = "idle"
    /\ cur_op = None
    /\ attempt = 0
    /\ last = NoOutcome
    /\ attempt_log = <<>>
    /\ result = NoResult
    /\ call_count = 0
    /\ sleeps = <<>>
    /\ pre = [validate |-> CircuitBreaker(DEFAULT_FAILURE_THRESHOLD),
              recommend |-> CircuitBreaker(DEFAULT_FAILURE_THRESHOLD)]
    /\ streak = [op \in Tools |-> 0]
    /\ fresh = [op \in Tools |-> FALSE]
    /\ call_streak = 0
    /\ call_fresh = FALSE
    /\ callers = [c \in Callers |-> IdleCaller]
    /\ counted = [op \in Tools |-> NoCount]

Init ==
    /\ InvokerInit
    /\ req = NoRequest
    /\ resp = NoRequest
    /\ prev_resp = NoRequest
    /\ performed = <<>>

Next ==
    \/ validate_measurements
    \/ recommend_sizes
    \/ post_with_retry
    \/ sleep_continue
    \/ validate_measurements_return
    \/ recommend_sizes_return

Spec == Init /\ [][Next]_vars

\* requests.post is bounded by TIMEOUT and time.sleep by its argument, so a
\* call in flight always takes its next step.
FairSpec ==
    /\ Spec
    /\ WF_vars(post_with_retry)
    /\ WF_vars(sleep_continue)
    /\ WF_vars(validate_measurements_return)
    /\ WF_vars(recommend_sizes_return)

ConcNext ==
    \E c \in Callers :
        \/ thread_call(c)
        \/ thread_post_with_retry(c)
        \/ thread_sleep_continue(c)
        \/ thread_return(c)
        \/ thread_call_failed_load(c)
        \/ thread_call_failed_store(c)
        \/ thread_call_failed_check(c)
        \/ thread_call_succeeded_reset(c)
        \/ thread_call_succeeded_close(c)

ConcSpec == Init /\ [][ConcNext]_vars

-----------------------------------------------------------------------------
(* Normalization engine: backend/app/core/validation.py                     *)

CANONICAL_FIELDS ==
    {"height", "neck", "shoulder", "chest", "underbust", "waist_natural",
     "sleeve", "bicep", "forearm", "hip_low", "thigh", "knee", "calf",
     "ankle", "front_rise", "back_rise", "inseam", "outseam"}

ALLOWED_META_FIELDS ==
    {"unit", "session_id", "front_landmarks", "side_landmarks",
     "front_photo_url", "side_photo_url", "source_type", "platform",
     "arkit_body_anchor", "arkit_depth_map", "browser_info",
     "processing_location", "device_id"}

\* f"{field}_cm"
CmName ==
    [height |-> "height_cm", neck |-> "neck_cm", shoulder |-> "shoulder_cm",
     chest |-> "chest_cm", underbust |-> "underbust_cm",
     waist_natural |-> "waist_natural_cm", sleeve |-> "sleeve_cm",
     bicep |-> "bicep_cm", forearm |-> "forearm_cm", hip_low |-> "hip_low_cm",
     thigh |-> "thigh_cm", knee |-> "knee_cm", calf |-> "calf_cm",
     ankle |-> "ankle_cm", front_rise |-> "front_rise_cm",
     back_rise |-> "back_rise_cm", inseam |-> "inseam_cm",
     outseam |-> "outseam_cm"]

\* The 18 required float fields of MeasurementNormalized.
NormalizedCmFields == {CmName[f] : f \in CANONICAL_FIELDS}

\* Lengths are kept in hundredths of a centimeter.
inches_to_cm(inches) == inches * 254

cm_to_cm(value) == value * 100

(* Bounded requests *)

\* Field names that are neither canonical nor metadata.
UnknownPool == <<"waist_circ", "hip_high", "torso", "belly">>

MaxUnknown == 2

UnknownNames == {UnknownPool[i] : i \in 1..MaxUnknown}

\* Which canonical fields a request supplies.
CanonicalChoices ==
    {{}, {"waist_natural"}, {"height", "chest", "waist_natural", "hip_low"},
     CANONICAL_FIELDS}

\* Values of the supplied fields, in the request's unit.
ValueTemplates ==
    {[f \in CANONICAL_FIELDS |-> 32],
     [f \in CANONICAL_FIELDS |-> IF f = "height" THEN 68 ELSE 40]}

\* MediaPipe indices the geometry reads from the front set (it reads a
\* subset of them, 11, 12, 23 and 24, from the side set).
GeometryIndices == {0, 11, 12, 13, 15, 23, 24, 25, 27, 28}

\* Number of points of a MediaPipe Pose landmark list.
LANDMARK_COUNT == 33

\* Normalized landmark coordinates, in tenths.
StandingPose ==
    [i \in GeometryIndices |->
        CASE i = 0 -> [x |-> 5, y |-> 1, z |-> 0]
          [] i = 11 -> [x |-> 6, y |-> 3, z |-> 1]
          [] i = 12 -> [x |-> 4, y |-> 3, z |-> -1]
          [] i = 13 -> [x |-> 7, y |-> 5, z |-> 0]
          [] i = 15 -> [x |-> 7, y |-> 7, z |-> 0]
          [] i = 23 -> [x |-> 6, y |-> 6, z |-> 1]
          [] i = 24 -> [x |-> 4, y |-> 6, z |-> -1]
          [] i = 25 -> [x |-> 6, y |-> 8, z |-> 0]
          [] i = 27 -> [x |-> 6, y |-> 10, z |-> 0]
          [] OTHER -> [x |-> 4, y |-> 10, z |-> 0]]

\* The same pose upside down: the nose lies below the ankles.
InvertedPose ==
    [i \in GeometryIndices |-> [StandingPose[i] EXCEPT !.y = 11 - @]]

\* All points coincide: the ankle-to-nose distance is 0.
CoincidentPose == [i \in GeometryIndices |-> [x |-> 5, y |-> 5, z |-> 0]]

\* A landmark set: the number of points, the sum of their visibility scores
\* and the sum over the eight key indices (both in hundredths), the image
\* size, and the points the geometry reads. key_vis is the visibility of
\* every key landmark, other_vis that of every other landmark.
LandmarkSet(len, key_vis, other_vis, pose, image_width, image_height) ==
    [present |-> TRUE,
     len |-> len,
     visibility_sum |-> IF len >= LANDMARK_COUNT
                        THEN 8 * key_vis + (len - 8) * other_vis
                        ELSE len * other_vis,
     key_sum |-> IF len >= LANDMARK_COUNT THEN 8 * key_vis ELSE 0,
     image_width |-> image_width,
     image_height |-> image_height,
     landmarks |-> [i \in {j \in GeometryIndices : j < len} |-> pose[i]]]

LandmarkSets ==
    {LandmarkSet(LANDMARK_COUNT, 95, 95, StandingPose, 2, 3),
     LandmarkSet(LANDMARK_COUNT, 75, 75, StandingPose, 2, 3),
     LandmarkSet(LANDMARK_COUNT, 50, 60, InvertedPose, 2, 3),
     LandmarkSet(LANDMARK_COUNT, 95, 95, CoincidentPose, 1, 1),
     LandmarkSet(10, 95, 95, StandingPose, 2, 3)}

\* front_landmarks / side_landmarks left at their default None.
NoLandmarks ==
    [present |-> FALSE, len |-> 0, visibility_sum |-> 0, key_sum |-> 0,
     image_width |-> 0, image_height |-> 0, landmarks |-> <<>>]

SessionIds == {None, "", "sess-1"}

\* Values uuid.uuid4() may produce.
UUIDs == {"uuid-a", "uuid-b"}

Requests ==
    [canonical : CanonicalChoices,
     values : ValueTemplates,
     unknown : SUBSET UnknownNames,
     unit_set : BOOLEAN,
     unit : {"cm", "in"},
     session_id : SessionIds,
     front_landmarks : {NoLandmarks} \cup LandmarkSets,
     side_landmarks : {NoLandmarks} \cup LandmarkSets,
     raw_payload : {None, "payload"}]

\* A request that leaves `unit` unset carries the schema default Unit.CM, and
\* a request that supplies no canonical field carries no values.
WellFormed(r) ==
    /\ ~r.unit_set => r.unit = "cm"
    /\ r.canonical = {} => r.values = [f \in CANONICAL_FIELDS |-> 32]

\* The field names present in the request: model_dump(exclude_unset=True)
\* keeps the fields that were set, extras included, and raw_payload is the
\* dict the request was parsed from.
PayloadKeys(r) ==
    r.canonical \cup r.unknown
    \cup (IF r.unit_set THEN {"unit"} ELSE {})
    \cup (IF r.session_id # None THEN {"session_id"} ELSE {})
    \cup (IF r.front_landmarks.present THEN {"front_landmarks"} ELSE {})
    \cup (IF r.side_landmarks.present THEN {"side_landmarks"} ELSE {})

\* Python truthiness of an Optional[str].
Truthy(str) == str # None /\ str # ""

RECURSIVE SetToSeq(_)
SetToSeq(S) ==
    IF S = {} THEN <<>>
    ELSE LET x == CHOOSE y \in S : TRUE
         IN  <<x>> \o SetToSeq(S \ {x})

\* The orders in which `for field_name in keys` may visit a key set; the
\* iteration order of a Python set of strings is not fixed.
KeyOrders(keys) ==
    LET unk == keys \ (CANONICAL_FIELDS \cup ALLOWED_META_FIELDS)
        known == SetToSeq(keys \ unk)
        n == Cardinality(unk)
        perms == {p \in [1..n -> unk] : \A i, j \in 1..n : i # j => p[i] # p[j]}
    IN  {p \o known : p \in perms} \cup {known \o p : p \in perms}

(* calculate_measurements_from_landmarks. Pixel coordinates are kept in    *)
(* units of 1/PixelScale pixel so that the midpoints the code takes are    *)
(* integers; lengths come out in hundredths of a centimeter, truncated.    *)
(* The square root and pi are integer approximations.                      *)

MaxIndexRead == 28

SideMaxIndexRead == 24

PixelScale == 40

REFERENCE_HEIGHT_CM == 170

Abs(x) == IF x < 0 THEN -x ELSE x

Max(a, b) == IF a >= b THEN a ELSE b

RECURSIVE SqrtSearch(_, _, _)
SqrtSearch(n, lo, hi) ==
    IF lo >= hi THEN lo
    ELSE LET mid == (lo + hi + 1) \div 2
         IN  IF mid * mid <= n THEN SqrtSearch(n, mid, hi)
             ELSE SqrtSearch(n, lo, mid - 1)

\* math.sqrt, rounded down.
Sqrt(n) == SqrtSearch(n, 0, n)

\* value * percent / 100
Pct(value, percent) == (value * percent) \div 100

\* math.pi * value
TimesPi(value) == (value * 314) \div 100

calculate_distance(p1, p2) ==
    LET dx == p2.x - p1.x
        dy == p2.y - p1.y
        dz == p2.z - p1.z
    IN  Sqrt(dx * dx + dy * dy + dz * dz)

\* Coordinates are tenths, so 4 * tenths * size is in 1/40 pixel.
denormalize_point(pt, img_width, img_height) ==
    [x |-> 4 * pt.x * img_width,
     y |-> 4 * pt.y * img_height,
     z |-> 4 * pt.z * img_width]

\* Variant: the signed difference, without abs().
height_pixels_signed(ankle_y, head_y) == ankle_y - head_y

height_pixels_of(ankle_y, head_y) == Abs(ankle_y - head_y)

\* px / pixels_per_cm, where pixels_per_cm is height_pixels / 170 when
\* height_pixels > 0 and 1.0 otherwise.
DivPixelsPerCm(px, height_pixels) ==
    IF height_pixels > 0
    THEN (px * REFERENCE_HEIGHT_CM * 100) \div height_pixels
    ELSE (px * 100) \div PixelScale

calculate_measurements_from_landmarks(front_landmarks, side_landmarks) ==
    IF front_landmarks.len <= MaxIndexRead \/ side_landmarks.len <= SideMaxIndexRead
    THEN [raises |-> "IndexError", measurements |-> <<>>]
    ELSE
    LET front_px == [i \in DOMAIN front_landmarks.landmarks |->
                        denormalize_point(front_landmarks.landmarks[i],
                                          front_landmarks.image_width,
                                          front_landmarks.image_height)]
        side_px == [i \in DOMAIN side_landmarks.landmarks |->
                        denormalize_point(side_landmarks.landmarks[i],
                                          side_landmarks.image_width,
                                          side_landmarks.image_height)]
        left_ankle == front_px[27]
        right_ankle == front_px[28]
        nose == front_px[0]
        ankle_y == (left_ankle.y + right_ankle.y) \div 2
        head_y == nose.y
        height_pixels == height_pixels_of(ankle_y, head_y)
        ToCm(px) == DivPixelsPerCm(px, height_pixels)
        left_shoulder == front_px[11]
        right_shoulder == front_px[12]
        shoulder_width_cm == ToCm(calculate_distance(left_shoulder, right_shoulder))
        chest_depth_px == Abs(side_px[11].z - side_px[12].z)
        chest_depth_0 == IF chest_depth_px > 0 THEN ToCm(chest_depth_px)
                         ELSE Pct(shoulder_width_cm, 50)
        chest_width_cm == Pct(shoulder_width_cm, 105)
        chest_depth_cm == Max(chest_depth_0, Pct(chest_width_cm, 50))
        chest_cm == TimesPi(chest_width_cm + chest_depth_cm) \div 2
        left_hip == front_px[23]
        right_hip == front_px[24]
        waist_y == (left_shoulder.y + right_shoulder.y + left_hip.y + right_hip.y) \div 4
        waist_width_px == Pct(calculate_distance(left_hip, right_hip), 85)
        waist_width_cm == ToCm(waist_width_px)
        waist_depth_px == Pct(Abs(side_px[23].z - side_px[24].z), 80)
        waist_depth_cm == IF waist_depth_px > 0 THEN ToCm(waist_depth_px)
                          ELSE Pct(waist_width_cm, 50)
        waist_cm == TimesPi(waist_width_cm + waist_depth_cm) \div 2
        hip_width_cm == ToCm(calculate_distance(left_hip, right_hip))
        hip_depth_px == Abs(side_px[23].z - side_px[24].z)
        hip_depth_cm == IF hip_depth_px > 0 THEN ToCm(hip_depth_px)
                        ELSE Pct(hip_width_cm, 55)
        hip_cm == TimesPi(hip_width_cm + hip_depth_cm) \div 2
        inseam_cm == ToCm(calculate_distance(left_ankle, left_hip))
        outseam_cm == ToCm(Abs(ankle_y - waist_y))
        left_wrist == front_px[15]
        sleeve_cm == ToCm(calculate_distance(left_shoulder, left_wrist))
        left_elbow == front_px[13]
        bicep_cm == Pct(ToCm(calculate_distance(left_shoulder, left_elbow)), 90)
        forearm_cm == Pct(ToCm(calculate_distance(left_elbow, left_wrist)), 85)
        left_knee == front_px[25]
        thigh_cm == Pct(ToCm(calculate_distance(left_hip, left_knee)), 130)
        knee_cm == Pct(thigh_cm, 70)
        calf_cm == Pct(ToCm(calculate_distance(left_knee, left_ankle)), 90)
        ankle_cm == Pct(calf_cm, 65)
        neck_cm == Pct(shoulder_width_cm, 40)
        underbust_cm == Pct((chest_cm + waist_cm) \div 2, 95)
        front_rise_cm == ToCm(Abs(waist_y - left_hip.y))
        back_rise_cm == Pct(front_rise_cm, 120)
    IN  [raises |-> None,
         measurements |->
            [height_cm |-> ToCm(height_pixels),
             neck_cm |-> neck_cm,
             shoulder_cm |-> shoulder_width_cm,
             chest_cm |-> chest_cm,
             underbust_cm |-> underbust_cm,
             waist_natural_cm |-> waist_cm,
             sleeve_cm |-> sleeve_cm,
             bicep_cm |-> bicep_cm,
             forearm_cm |-> forearm_cm,
             hip_low_cm |-> hip_cm,
             thigh_cm |-> thigh_cm,
             knee_cm |-> knee_cm,
             calf_cm |-> calf_cm,
             ankle_cm |-> ankle_cm,
             front_rise_cm |-> front_rise_cm,
             back_rise_cm |-> back_rise_cm,
             inseam_cm |-> inseam_cm,
             outseam_cm |-> outseam_cm]]

\* Variant: the 0.7/0.75 tier tests the key visibility the wrong way round.
estimate_accuracy_flipped_tier(front_landmarks, side_landmarks) ==
    LET total == front_landmarks.visibility_sum + side_landmarks.visibility_sum
        count == front_landmarks.len + side_landmarks.len
        keys == front_landmarks.key_sum + side_landmarks.key_sum
    IN  IF count = 0
        THEN [raises |-> "ZeroDivisionError", value |-> 0]
        ELSE IF front_landmarks.len <= MaxIndexRead \/ side_landmarks.len <= MaxIndexRead
        THEN [raises |-> "IndexError", value |-> 0]
        ELSE IF total > 85 * count /\ keys > 90 * 16
        THEN [raises |-> None, value |-> 95]
        ELSE IF total > 70 * count /\ keys < 75 * 16
        THEN [raises |-> None, value |-> 90]
        ELSE IF total > 50 * count /\ keys > 60 * 16
        THEN [raises |-> None, value |-> 85]
        ELSE [raises |-> None, value |-> 80]

\* Variant: the thresholds are inclusive.
estimate_accuracy_inclusive(front_landmarks, side_landmarks) ==
    LET total == front_landmarks.visibility_sum + side_landmarks.visibility_sum
        count == front_landmarks.len + side_landmarks.len
        keys == front_landmarks.key_sum + side_landmarks.key_sum
    IN  IF count = 0
        THEN [raises |-> "ZeroDivisionError", value |-> 0]
        ELSE IF front_landmarks.len <= MaxIndexRead \/ side_landmarks.len <= MaxIndexRead
        THEN [raises |-> "IndexError", value |-> 0]
        ELSE IF total >= 85 * count /\ keys >= 90 * 16
        THEN [raises |-> None, value |-> 95]
        ELSE IF total >= 70 * count /\ keys >= 75 * 16
        THEN [raises |-> None, value |-> 90]
        ELSE IF total >= 50 * count /\ keys >= 60 * 16
        THEN [raises |-> None, value |-> 85]
        ELSE [raises |-> None, value |-> 80]

\* estimate_accuracy, in hundredths. avg_visibility > t is compared as
\* sum > t * count, key_visibility_avg > t as key sums > t * 16.
estimate_accuracy(front_landmarks, side_landmarks) ==
    LET total == front_landmarks.visibility_sum + side_landmarks.visibility_sum
        count == front_landmarks.len + side_landmarks.len
        keys == front_landmarks.key_sum + side_landmarks.key_sum
    IN  IF count = 0
        THEN [raises |-> "ZeroDivisionError", value |-> 0]
        ELSE IF front_landmarks.len <= MaxIndexRead \/ side_landmarks.len <= MaxIndexRead
        THEN [raises |-> "IndexError", value |-> 0]
        ELSE IF total > 85 * count /\ keys > 90 * 16
        THEN [raises |-> None, value |-> 95]
        ELSE IF total > 70 * count /\ keys > 75 * 16
        THEN [raises |-> None, value |-> 90]
        ELSE IF total > 50 * count /\ keys > 60 * 16
        THEN [raises |-> None, value |-> 85]
        ELSE [raises |-> None, value |-> 80]

CanonicalHint == "Did you mean one of: <sorted CANONICAL_FIELDS>?"

ErrorDetail(field, message, hint) ==
    [field |-> field, message |-> message, hint |-> hint]

ErrorResponse(type, code, message, errors, session_id) ==
    [type |-> type, code |-> code, message |-> message, errors |-> errors,
     session_id |-> session_id]

HTTPException(status_code, detail) ==
    [kind |-> "HTTPException", status_code |-> status_code, detail |-> detail]

Raised(exc) == [kind |-> "Exception", exc |-> exc]

\* MeasurementNormalized(**kwargs): every *_cm field is required.
MeasurementNormalized(measurements, meta) ==
    IF NormalizedCmFields \subseteq DOMAIN measurements
    THEN [kind |-> "MeasurementNormalized",
          measurements |-> measurements,
          source |-> meta.source,
          model_version |-> "v1.0-mediapipe",
          confidence |-> meta.confidence,
          accuracy_estimate |-> meta.accuracy_estimate,
          session_id |-> meta.session_id,
          front_landmarks_id |-> meta.front_landmarks_id,
          side_landmarks_id |-> meta.side_landmarks_id]
    ELSE Raised("ValidationError")

\* Variant: the unknown-field test looks at the canonical names only, so
\* metadata names are reported as well.
unknown_field_errors_canonical_only(key_order) ==
    LET IsUnknown(k) == k \notin CANONICAL_FIELDS
        bad == SelectSeq(key_order, IsUnknown)
    IN  [i \in 1..Len(bad) |-> ErrorDetail(bad[i], "Unknown field", CanonicalHint)]

\* The loop over the supplied keys: one ErrorDetail per unknown name, in the
\* order the keys are visited.
unknown_field_errors(key_order) ==
    LET IsUnknown(k) == k \notin CANONICAL_FIELDS /\ k \notin ALLOWED_META_FIELDS
        bad == SelectSeq(key_order, IsUnknown)
    IN  [i \in 1..Len(bad) |-> ErrorDetail(bad[i], "Unknown field", CanonicalHint)]

\* The explicit-measurement branch: supplied canonical fields, converted.
user_input_measurements(input_data) ==
    [n \in {CmName[f] : f \in input_data.canonical} |->
        LET f == CHOOSE g \in input_data.canonical : CmName[g] = n
        IN  IF input_data.unit = "in"
            THEN inches_to_cm(input_data.values[f])
            ELSE cm_to_cm(input_data.values[f])]

\* Variant: every invocation draws a new session id.
session_id_or_uuid_always_new(session_id, uuid) == uuid

\* Variant: only None counts as absent, an empty string is kept.
session_id_or_uuid_when_none(session_id, uuid) ==
    IF session_id # None THEN session_id ELSE uuid

\* input_data.session_id or str(uuid.uuid4())
session_id_or_uuid(session_id, uuid) ==
    IF Truthy(session_id) THEN session_id ELSE uuid

\* normalize_and_validate(input_data, raw_payload); key_order and uuids are
\* the choices the run time makes (set iteration order, uuid4 draws).
normalize_and_validate(input_data, key_order, uuids) ==
    LET errors ==
            IF ~input_data.front_landmarks.present /\ ~input_data.side_landmarks.present
            THEN unknown_field_errors(key_order)
            ELSE <<>>
        session_id == session_id_or_uuid(input_data.session_id, uuids[3])
    IN  IF errors # <<>>
        THEN HTTPException(422,
                 ErrorResponse("validation_error", "unknown_field",
                               "Invalid measurement field names", errors,
                               input_data.session_id))
        ELSE IF input_data.front_landmarks.present /\ input_data.side_landmarks.present
        THEN LET m == calculate_measurements_from_landmarks(
                          input_data.front_landmarks, input_data.side_landmarks)
                 accuracy == estimate_accuracy(input_data.front_landmarks,
                                               input_data.side_landmarks)
             IN  IF m.raises # None THEN Raised(m.raises)
                 ELSE IF accuracy.raises # None THEN Raised(accuracy.raises)
                 ELSE MeasurementNormalized(m.measurements,
                          [source |-> "mediapipe",
                           confidence |-> accuracy.value,
                           accuracy_estimate |-> accuracy.value,
                           session_id |-> session_id,
                           front_landmarks_id |-> uuids[1],
                           side_landmarks_id |-> uuids[2]])
        ELSE MeasurementNormalized(user_input_measurements(input_data),
                 [source |-> "user_input",
                  confidence |-> 100,
                  accuracy_estimate |-> 100,
                  session_id |-> session_id,
                  front_landmarks_id |-> None,
                  side_landmarks_id |-> None])

\* normalize_and_validate is applied to the request.
normalize_and_validate_call ==
    /\ req # NoRequest
    /\ resp = NoRequest
    /\ \E key_order \in KeyOrders(PayloadKeys(req)) :
       \E uuids \in [1..3 -> UUIDs] :
          resp' = normalize_and_validate(req, key_order, uuids)
    /\ UNCHANGED <<invoker_vars, req, prev_resp, performed, callers, counted>>

NormInit ==
    /\ InvokerInit
    /\ req \in {r \in Requests : WellFormed(r)}
    /\ resp = NoRequest
    /\ prev_resp = NoRequest
    /\ performed = <<>>

NormNext == normalize_and_validate_call

NormSpec == NormInit /\ [][NormNext]_vars

\* normalize_and_validate is applied a second time to the same request.
normalize_and_validate_repeat ==
    /\ resp # NoRequest
    /\ prev_resp = NoRequest
    /\ prev_resp' = resp
    /\ \E key_order \in KeyOrders(PayloadKeys(req)) :
       \E uuids \in [1..3 -> UUIDs] :
          resp' = normalize_and_validate(req, key_order, uuids)
    /\ UNCHANGED <<invoker_vars, req, performed, callers, counted>>

RepeatNext ==
    \/ normalize_and_validate_call
    \/ normalize_and_validate_repeat

\* The repeated invocation is followed for requests that carry both landmark
\* sets, metadata, and no measurement field.
RepeatInit ==
    /\ InvokerInit
    /\ req \in {r \in Requests : /\ WellFormed(r)
                                 /\ r.front_landmarks.present
                                 /\ r.side_landmarks.present
                                 /\ r.canonical = {}
                                 /\ r.unknown = {}}
    /\ resp = NoRequest
    /\ prev_resp = NoRequest
    /\ performed = <<>>

RepeatSpec == RepeatInit /\ [][RepeatNext]_vars

-----------------------------------------------------------------------------
(* The measurements router: POST /measurements/validate and                 *)
(* POST /measurements/recommend, both behind the verify_api_key dependency. *)
(* Under this specification req is an HTTP request and resp its response.   *)

VALID_API_KEY == "staging-secret-key"

\* X-API-Key header: missing, the configured key, another key.
ApiKeys == {None, VALID_API_KEY, "wrong-key"}

\* The dependency returned without raising.
NoException == [kind |-> "None"]

\* Variant: a missing header passes, only a wrong key is refused.
verify_api_key_accepts_missing(x_api_key) ==
    IF x_api_key # None /\ x_api_key # VALID_API_KEY
    THEN HTTPException(401,
             ErrorResponse("authentication_error", "invalid_key",
                           "Invalid or missing API key", <<>>, None))
    ELSE NoException

\* verify_api_key: raises the 401 envelope or returns (nothing raised).
verify_api_key(x_api_key) ==
    IF x_api_key # VALID_API_KEY
    THEN HTTPException(401,
             ErrorResponse("authentication_error", "invalid_key",
                           "Invalid or missing API key", <<>>, None))
    ELSE NoException

\* An HTTP response: the status code and the JSON body.
Response(status_code, body) == [status_code |-> status_code, body |-> body]

\* How the framework renders a raised HTTPException.
ExceptionResponse(exc) == Response(exc.status_code, [detail |-> exc.detail])

\* The body did not parse into the endpoint's model (wrong type, missing
\* required field): the framework answers 422 without calling the endpoint.
RequestValidationResponse == Response(422, [detail |-> "RequestValidationError"])

\* Bodies of POST /measurements/validate: a MeasurementInput, or a body that
\* does not parse into one.
ValidateBodies ==
    {[valid |-> TRUE, model |-> r] :
        r \in {q \in Requests : /\ WellFormed(q)
                                /\ q.raw_payload = None
                                /\ q.unit_set
                                /\ q.values = [f \in CANONICAL_FIELDS |-> 32]}}
    \cup {[valid |-> FALSE, model |-> NoRequest]}

\* Bodies of POST /measurements/recommend: a MeasurementNormalized, or a
\* body that misses required fields.
RecommendBodies ==
    {[valid |-> TRUE,
      model |-> MeasurementNormalized(
                    [n \in NormalizedCmFields |-> cm_to_cm(v)],
                    [source |-> "user_input", confidence |-> 100,
                     accuracy_estimate |-> 100, session_id |-> sid,
                     front_landmarks_id |-> None, side_landmarks_id |-> None])] :
        v \in {32, 80}, sid \in SessionIds}
    \cup {[valid |-> FALSE, model |-> NoRequest]}

HttpRequests ==
    [endpoint : {"/measurements/validate"}, x_api_key : ApiKeys, body : ValidateBodies]
    \cup [endpoint : {"/measurements/recommend"}, x_api_key : ApiKeys,
          body : RecommendBodies]

\* Variant: an unexpected exception is reported like a validation error.
validate_endpoint_reports_422(input_data, key_order, uuids) ==
    LET normalized == normalize_and_validate(input_data, key_order, uuids)
    IN  IF normalized.kind = "HTTPException" THEN ExceptionResponse(normalized)
        ELSE IF normalized.kind = "Exception"
        THEN ExceptionResponse(
                 HTTPException(422,
                     ErrorResponse("validation_error", "schema",
                         "An unexpected error occurred during validation",
                         <<ErrorDetail("", normalized.exc, None)>>,
                         input_data.session_id)))
        ELSE Response(200, normalized)

\* The endpoint function validate_measurements of the router.
validate_endpoint(input_data, key_order, uuids) ==
    LET normalized == normalize_and_validate(input_data, key_order, uuids)
    IN  IF normalized.kind = "HTTPException" THEN ExceptionResponse(normalized)
        ELSE IF normalized.kind = "Exception"
        THEN ExceptionResponse(
                 HTTPException(500,
                     ErrorResponse("server_error", "internal",
                         "An unexpected error occurred during validation",
                         <<ErrorDetail("", normalized.exc, None)>>,
                         input_data.session_id)))
        ELSE Response(200, normalized)

\* The endpoint function recommend_sizes of the router (placeholder rules).
recommend_endpoint(measurements) ==
    Response(200,
        [recommendations |->
            <<[category |-> "tops", size |-> "M", confidence |-> 90,
               rationale |-> "Based on chest and waist measurements"],
              [category |-> "bottoms", size |-> "32", confidence |-> 85,
               rationale |-> "Based on waist and inseam measurements"]>>,
         processed_measurements |-> measurements,
         model_version |-> measurements.model_version,
         session_id |-> measurements.session_id])

\* POST /measurements/validate: the dependency runs first, then the body is
\* parsed, then the endpoint function is called.
post_measurements_validate ==
    /\ resp = NoRequest
    /\ req.endpoint = "/measurements/validate"
    /\ LET auth == verify_api_key(req.x_api_key)
       IN  IF auth.kind = "HTTPException"
           THEN resp' = ExceptionResponse(auth) /\ performed' = performed
           ELSE IF ~req.body.valid
           THEN resp' = RequestValidationResponse /\ performed' = performed
           ELSE /\ \E key_order \in KeyOrders(PayloadKeys(req.body.model)) :
                   \E uuids \in [1..3 -> UUIDs] :
                      resp' = validate_endpoint(req.body.model, key_order, uuids)
                /\ performed' = Append(performed, "normalize_and_validate")
    /\ UNCHANGED <<invoker_vars, req, prev_resp, callers, counted>>

\* POST /measurements/recommend, in the same order.
post_measurements_recommend ==
    /\ resp = NoRequest
    /\ req.endpoint = "/measurements/recommend"
    /\ LET auth == verify_api_key(req.x_api_key)
       IN  IF auth.kind = "HTTPException"
           THEN resp' = ExceptionResponse(auth) /\ performed' = performed
           ELSE IF ~req.body.valid
           THEN resp' = RequestValidationResponse /\ performed' = performed
           ELSE /\ resp' = recommend_endpoint(req.body.model)
                /\ performed' = Append(performed, "recommend_sizes")
    /\ UNCHANGED <<invoker_vars, req, prev_resp, callers, counted>>

ApiInit ==
    /\ InvokerInit
    /\ req \in HttpRequests
    /\ resp = NoRequest
    /\ prev_resp = NoRequest
    /\ performed = <<>>

ApiNext ==
    \/ post_measurements_validate
    \/ post_measurements_recommend

ApiSpec == ApiInit /\ [][ApiNext]_vars

-----------------------------------------------------------------------------
(* estimate_accuracy applied to two landmark inputs A and B. Under this     *)
(* specification req holds the two inputs and resp the two confidences.     *)

\* Visibility of a landmark, in hundredths.
VisLevels == {40, 50, 65, 75, 80, 95, 100}

\* Full-size landmark sets whose key landmarks share one visibility and whose
\* other landmarks share another.
AccuracySets ==
    {LandmarkSet(LANDMARK_COUNT, key_vis, other_vis, StandingPose, 2, 3) :
        key_vis \in VisLevels, other_vis \in VisLevels}

\* The side set is either as visible as the front set or fully visible.
AccuracyInputs ==
    {[front_landmarks |-> front, side_landmarks |-> side] :
        front \in AccuracySets,
        side \in {LandmarkSet(LANDMARK_COUNT, 100, 100, StandingPose, 2, 3)}}
    \cup {[front_landmarks |-> front, side_landmarks |-> front] :
            front \in AccuracySets}

estimate_accuracy_call ==
    /\ resp = NoRequest
    /\ resp' = [A |-> estimate_accuracy(req.A.front_landmarks,
                                        req.A.side_landmarks).value,
                B |-> estimate_accuracy(req.B.front_landmarks,
                                        req.B.side_landmarks).value]
    /\ UNCHANGED <<invoker_vars, req, prev_resp, performed, callers, counted>>

AccInit ==
    /\ InvokerInit
    /\ req \in [A : AccuracyInputs, B : AccuracyInputs]
    /\ resp = NoRequest
    /\ prev_resp = NoRequest
    /\ performed = <<>>

AccNext == estimate_accuracy_call

AccSpec == AccInit /\ [][AccNext]_vars

-----------------------------------------------------------------------------
(* Properties of the invoker, checked under Spec                            *)

Finished == pc = "done"

ResultType == IF "type" \in DOMAIN result THEN result.type ELSE None

Retryable(o) ==
    \/ o.kind = "Timeout"
    \/ o.kind = "response" /\ o.status_code \in SERVER_ERROR_CODES \cup {429}

AllRetryable == \A i \in 1..Len(attempt_log) : Retryable(attempt_log[i])

\* C1: a call of validate_measurements (resp. recommend_sizes) made while its
\* own breaker is open returns circuit_breaker_error at once, makes no
\* requests.post, and leaves the breaker's failure_count and is_open as
\* they were.
C1_OpenBreakerShortCircuits ==
    (pc # "idle" /\ PreOf(cur_op).is_open) =>
        /\ Finished
        /\ ResultType = "circuit_breaker_error"
        /\ call_count = 0
        /\ BreakerOf(cur_op).failure_count = PreOf(cur_op).failure_count
        /\ BreakerOf(cur_op).is_open = PreOf(cur_op).is_open

C1_Witness ==
    /\ Finished
    /\ cur_op = "recommend_sizes"
    /\ pre.recommend.is_open
    /\ ResultType = "circuit_breaker_error"
    /\ ~validate_breaker.is_open

\* C2: starting from a closed breaker with failure_count = 0, after exactly
\* failure_threshold consecutive failed calls of a tool its next call
\* short-circuits with circuit_breaker_error and makes no requests.post;
\* after fewer failed calls the next call still makes a requests.post.
C2_OpensAfterThresholdFailures ==
    (pc # "idle" /\ call_fresh) =>
        /\ call_streak = BreakerOf(cur_op).failure_threshold =>
              /\ Finished
              /\ ResultType = "circuit_breaker_error"
              /\ call_count = 0
        /\ (call_streak < BreakerOf(cur_op).failure_threshold /\ Finished) =>
              call_count >= 1

C2_Witness ==
    /\ Finished
    /\ call_fresh
    /\ call_streak = DEFAULT_FAILURE_THRESHOLD
    /\ ResultType = "circuit_breaker_error"
    /\ call_count = 0

\* C3: when an attempt of a call returns HTTP 200, the call returns the
\* decoded payload and the tool's breaker then has failure_count = 0 and
\* is closed, whatever the earlier attempts of the call were.
C3_SuccessResetsBreaker ==
    (Finished /\ last.kind = "response" /\ last.status_code = 200) =>
        /\ result = [decoded |-> PayloadJson]
        /\ BreakerOf(cur_op).failure_count = 0
        /\ ~BreakerOf(cur_op).is_open

C3_Witness ==
    /\ Finished
    /\ last.kind = "response" /\ last.status_code = 200
    /\ call_count = 2
    /\ PreOf(cur_op).failure_count = 2
    /\ BreakerOf(cur_op).failure_count = 0

\* C4: no call makes more than MAX_RETRIES + 1 requests.post, and a call
\* whose every attempt was retryable (timeout, 500/502/503/504, 429) makes
\* exactly MAX_RETRIES + 1 of them and returns timeout_error, server_error
\* or rate_limit_error according to its last attempt.
C4_RetryBudget ==
    /\ call_count <= MAX_RETRIES + 1
    /\ (Finished /\ call_count >= 1 /\ AllRetryable) =>
          /\ call_count = MAX_RETRIES + 1
          /\ ResultType = IF last.kind = "Timeout" THEN "timeout_error"
                          ELSE IF last.status_code = 429 THEN "rate_limit_error"
                          ELSE "server_error"

C4_Witness ==
    /\ Finished
    /\ call_count = MAX_RETRIES + 1
    /\ \A i \in 1..Len(attempt_log) : attempt_log[i].kind = "Timeout"
    /\ ResultType = "timeout_error"

\* C5: a call that passed the gate and returned server_error, timeout_error,
\* connection_error or unexpected_error raised the tool's failure_count by
\* exactly 1, however many attempts it made; HTTP 500 on both attempts gives
\* two attempts, server_error and failure_count + 1.
C5_FailureCountedPerCall ==
    /\ (Finished /\ IsFailure(result)) =>
          BreakerOf(cur_op).failure_count = PreOf(cur_op).failure_count + 1
    /\ (Finished /\ Len(attempt_log) >= 1
          /\ \A i \in 1..Len(attempt_log) :
                attempt_log[i] = [kind |-> "response", status_code |-> 500]) =>
          /\ call_count = 2
          /\ ResultType = "server_error"
          /\ BreakerOf(cur_op).failure_count = PreOf(cur_op).failure_count + 1

C5_Witness ==
    /\ Finished
    /\ cur_op = "validate_measurements"
    /\ attempt_log = <<[kind |-> "response", status_code |-> 500],
                       [kind |-> "response", status_code |-> 500]>>
    /\ ResultType = "server_error"
    /\ validate_breaker.failure_count = 1

\* C6: a call whose last attempt returned HTTP 429 returns rate_limit_error
\* and leaves the tool's breaker exactly as it was before the call.
C6_RateLimitLeavesBreaker ==
    (Finished /\ last.kind = "response" /\ last.status_code = 429) =>
        /\ ResultType = "rate_limit_error"
        /\ BreakerOf(cur_op) = PreOf(cur_op)

C6_Witness ==
    /\ Finished
    /\ cur_op = "recommend_sizes"
    /\ last.kind = "response" /\ last.status_code = 429
    /\ call_count = 2
    /\ recommend_breaker.failure_count = 2
    /\ pre.recommend.failure_count = 2

\* C7: for both tools an HTTP 422 response is never counted as a breaker
\* failure: the call returns the body's `detail` with status_code 422 and the
\* tool's failure_count is not raised by it.
C7_422NotCountedByEitherTool ==
    (Finished /\ last.kind = "response" /\ last.status_code = 422) =>
        /\ "error" \in DOMAIN result /\ result.error = DetailJson
        /\ "status_code" \in DOMAIN result /\ result.status_code = 422
        /\ BreakerOf(cur_op).failure_count <= PreOf(cur_op).failure_count

\* C8: every result of either tool other than the decoded HTTP 200 payload
\* carries a top-level `type` from the closed error taxonomy.
C8_EveryFailureResultTyped ==
    (Finished /\ result # [decoded |-> PayloadJson]) =>
        /\ "type" \in DOMAIN result
        /\ result.type \in ErrorTypes

\* C9: with calls issued one at a time and no external reset, a breaker that
\* has opened stays open: no step changes it, and every later call of its
\* tool returns circuit_breaker_error.
C9_OpenBreakerStaysOpen ==
    [][/\ validate_breaker.is_open =>
             /\ validate_breaker' = validate_breaker
             /\ (cur_op' = "validate_measurements" /\ pc' = "done") =>
                    ResultType' = "circuit_breaker_error"
       /\ recommend_breaker.is_open =>
             /\ recommend_breaker' = recommend_breaker
             /\ (cur_op' = "recommend_sizes" /\ pc' = "done") =>
                    ResultType' = "circuit_breaker_error"]_vars

C9_Witness ==
    /\ Finished
    /\ cur_op = "validate_measurements"
    /\ pre.validate.is_open
    /\ validate_breaker.is_open
    /\ validate_breaker.failure_count >= validate_breaker.failure_threshold
    /\ recommend_breaker.is_open
    /\ ResultType = "circuit_breaker_error"

\* C21: a non-retryable attempt (HTTP 200, 422, a status outside
\* {429, 500, 502, 503, 504}, or a non-timeout transport failure) is the
\* last attempt of its call even when retries remain; the transport failure
\* gives connection_error and a status the tool has no branch for gives
\* unexpected_error, each with failure_count raised by one.
ListedStatuses == {200, 422, 429} \cup SERVER_ERROR_CODES

C21_NonRetryableEndsCall ==
    /\ \A i \in 1..Len(attempt_log) :
          ~Retryable(attempt_log[i]) => i = Len(attempt_log) /\ pc # "sleeping"
    /\ (Finished /\ last.kind = "RequestException") =>
          /\ ResultType = "connection_error"
          /\ BreakerOf(cur_op).failure_count = PreOf(cur_op).failure_count + 1
    /\ (Finished /\ last.kind = "response" /\ last.status_code \notin ListedStatuses) =>
          /\ ResultType = "unexpected_error"
          /\ BreakerOf(cur_op).failure_count = PreOf(cur_op).failure_count + 1

C21_Witness ==
    /\ Finished
    /\ attempt_log = <<[kind |-> "RequestException", status_code |-> 0]>>
    /\ attempt = 0
    /\ ResultType = "connection_error"
    /\ BreakerOf(cur_op).failure_count = 2

\* A step lowers the failure_count of a breaker or closes it.
Lowered(b_before, b_after) ==
    \/ b_after.failure_count < b_before.failure_count
    \/ b_before.is_open /\ ~b_after.is_open

\* The step ends a call of `op` whose last attempt returned one of `codes`.
EndsCallWith(op, codes) ==
    /\ pc' = "done"
    /\ cur_op' = op
    /\ last'.kind = "response"
    /\ last'.status_code \in codes

\* C22 as stated: the failure_count of a tool never decreases and its
\* breaker never closes, except at a call that ends with HTTP 200, which
\* sets the count to 0 and closes the breaker.
C22_OnlySuccessLowersCount ==
    [][/\ Lowered(validate_breaker, validate_breaker') =>
             /\ EndsCallWith("validate_measurements", {200})
             /\ validate_breaker'.failure_count = 0
             /\ ~validate_breaker'.is_open
       /\ Lowered(recommend_breaker, recommend_breaker') =>
             /\ EndsCallWith("recommend_sizes", {200})
             /\ recommend_breaker'.failure_count = 0
             /\ ~recommend_breaker'.is_open]_vars

\* C22 amended: the failure_count of a tool never decreases and its breaker
\* never closes, except at a call that ends with HTTP 200 or, for
\* validate_measurements, with HTTP 422; such a call sets the count to 0
\* and closes the breaker.
C22_OnlySuccessOr422LowersCount ==
    [][/\ Lowered(validate_breaker, validate_breaker') =>
             /\ EndsCallWith("validate_measurements", {200, 422})
             /\ validate_breaker'.failure_count = 0
             /\ ~validate_breaker'.is_open
       /\ Lowered(recommend_breaker, recommend_breaker') =>
             /\ EndsCallWith("recommend_sizes", {200})
             /\ recommend_breaker'.failure_count = 0
             /\ ~recommend_breaker'.is_open]_vars

\* A validate call answered 422 has reset a count of 2.
C22_Witness ==
    /\ Finished
    /\ cur_op = "validate_measurements"
    /\ last.kind = "response" /\ last.status_code = 422
    /\ pre.validate.failure_count = 2
    /\ validate_breaker.failure_count = 0

\* C23: the two breakers are independent: no step of a validate_measurements
\* call changes recommend_breaker and no step of a recommend_sizes call
\* changes validate_breaker, so recommend_sizes still posts while
\* validate_breaker is open.
C23_BreakersIndependent ==
    [][/\ cur_op' = "validate_measurements" => recommend_breaker' = recommend_breaker
       /\ cur_op' = "recommend_sizes" => validate_breaker' = validate_breaker]_vars

\* recommend_sizes has posted, and failed, while validate_breaker is open.
C23_Witness ==
    /\ Finished
    /\ cur_op = "recommend_sizes"
    /\ call_count >= 1
    /\ IsFailure(result)
    /\ recommend_breaker.failure_count = pre.recommend.failure_count + 1
    /\ pre.validate.is_open
    /\ validate_breaker = pre.validate

InFlight == pc \in {"attempting", "sleeping", "returned", "raised"}

WaitAfter(o, i) ==
    IF o.kind = "response" /\ o.status_code = 429
    THEN RATE_LIMIT_SLEEP
    ELSE 2 ^ (i - 1)

\* C26: within one call a wait separates consecutive attempts: 2^attempt
\* (attempt counted from 0) after a 500/502/503/504 or a timeout, 5 after a
\* 429; no wait follows the final attempt or a non-retryable outcome.
C26_WaitBetweenAttempts ==
    /\ \A i \in 1..Len(sleeps) :
          /\ i <= Len(attempt_log)
          /\ Retryable(attempt_log[i])
          /\ sleeps[i] = WaitAfter(attempt_log[i], i)
    /\ pc \in {"sleeping", "attempting"} => Len(sleeps) = Len(attempt_log)
    /\ (pc \in {"returned", "raised", "done"} /\ Len(attempt_log) >= 1) =>
          Len(sleeps) = Len(attempt_log) - 1

\* A call waited 5 after a 429 and did not wait after its last attempt.
C26_Witness ==
    /\ Finished
    /\ attempt_log = <<[kind |-> "response", status_code |-> 429],
                       [kind |-> "response", status_code |-> 503]>>
    /\ sleeps = <<RATE_LIMIT_SLEEP>>

\* With calls issued one at a time each breaker is open exactly when its
\* failure_count has reached failure_threshold, and the count stays between
\* 0 and the threshold.
OpenIffThresholdReachedOneAtATime ==
    \A op \in Tools :
        LET b == BreakerOf(op)
        IN  /\ b.is_open <=> b.failure_count >= b.failure_threshold
            /\ 0 <= b.failure_count
            /\ b.failure_count <= b.failure_threshold

\* A call was refused by an open breaker whose count stands at the threshold.
RefusedAtThreshold ==
    /\ Finished
    /\ ResultType = "circuit_breaker_error"
    /\ BreakerOf(cur_op).is_open
    /\ BreakerOf(cur_op).failure_count = BreakerOf(cur_op).failure_threshold

-----------------------------------------------------------------------------
(* Properties of concurrent callers, checked under ConcSpec                 *)

\* No thread is inside a breaker method of tool `op` past its first store.
Quiescent(op) ==
    \A c \in Callers :
        callers[c].op = op =>
            callers[c].pc \notin {"call_failed_check", "call_succeeded_close"}

\* C24: no breaker update is lost: when n callers of a tool have recorded a
\* failure and no call succeeded in between, failure_count has grown by
\* exactly n, and once they have all returned is_open is true if that count
\* is >= the threshold.
C24_NoLostUpdate ==
    \A op \in Tools :
        (counted[op].clean /\ counted[op].n < MaxFailureCount) =>
            /\ BreakerOf(op).failure_count = counted[op].n
            /\ (Quiescent(op) /\ counted[op].n >= BreakerOf(op).failure_threshold) =>
                    BreakerOf(op).is_open

\* Thread c makes a requests.post in this step.
Posts(c) ==
    /\ callers[c].pc = "attempting"
    /\ callers'[c].pc \in {"sleeping", "finishing"}

\* C29: with concurrent callers no requests.post of a tool starts while the
\* tool's breaker is open, so a call that passed the gate makes no further
\* attempt once another caller has opened the breaker, and an open breaker
\* is never closed by such a call succeeding.
C29_NoAttemptWhileOpen ==
    [][/\ \A c \in Callers : Posts(c) => ~BreakerOf(callers[c].op).is_open
       /\ validate_breaker.is_open => validate_breaker'.is_open
       /\ recommend_breaker.is_open => recommend_breaker'.is_open]_vars

\* No thread is inside a method of the breaker of tool `op`.
BetweenOperations(op) ==
    \A c \in Callers :
        callers[c].op = op =>
            callers[c].pc \notin {"call_failed_store", "call_failed_check",
                                  "call_succeeded_close"}

\* C30: in every state between CircuitBreaker operations, each breaker is
\* open exactly when its failure_count has reached failure_threshold, and
\* the count is never negative.
C30_OpenIffThresholdReached ==
    \A op \in Tools :
        BetweenOperations(op) =>
            /\ BreakerOf(op).is_open <=>
                   BreakerOf(op).failure_count >= BreakerOf(op).failure_threshold
            /\ 0 <= BreakerOf(op).failure_count

-----------------------------------------------------------------------------
(* Properties of the normalization engine, checked under NormSpec           *)

Normalized == resp # NoRequest

\* C10: an explicit-measurement request (no landmark sets) with at least one
\* field name outside CANONICAL_FIELDS and ALLOWED_META_FIELDS yields no
\* normalized record but one 422 validation_error envelope with code
\* unknown_field, whose errors hold exactly one ErrorDetail, with a hint, per
\* offending name and none for a known name.
C10_UnknownFieldsRejected ==
    (/\ Normalized
     /\ ~req.front_landmarks.present /\ ~req.side_landmarks.present
     /\ PayloadKeys(req) \ (CANONICAL_FIELDS \cup ALLOWED_META_FIELDS) # {}) =>
        /\ resp.kind = "HTTPException"
        /\ resp.status_code = 422
        /\ resp.detail.type = "validation_error"
        /\ resp.detail.code = "unknown_field"
        /\ LET errs == resp.detail.errors
               bad == PayloadKeys(req) \ (CANONICAL_FIELDS \cup ALLOWED_META_FIELDS)
           IN  /\ Len(errs) = Cardinality(bad)
               /\ {errs[i].field : i \in 1..Len(errs)} = bad
               /\ \A i \in 1..Len(errs) : errs[i].hint = CanonicalHint

C10_Witness ==
    /\ Normalized
    /\ resp.kind = "HTTPException"
    /\ ~req.front_landmarks.present /\ ~req.side_landmarks.present
    /\ Cardinality(req.unknown) = 2
    /\ req.canonical = CANONICAL_FIELDS
    /\ req.unit_set
    /\ Len(resp.detail.errors) = 2

ExplicitMode(r) == ~r.front_landmarks.present /\ ~r.side_landmarks.present

NoUnknownFields(r) ==
    PayloadKeys(r) \subseteq CANONICAL_FIELDS \cup ALLOWED_META_FIELDS

IsRecord(x) == x # NoRequest /\ x.kind = "MeasurementNormalized"

\* C11: for every valid explicit-measurement input and every canonical field
\* the caller supplied with value v, the normalized output holds v * 2.54 for
\* that field when the unit is inches and v unchanged when it is centimeters
\* or not given (values in hundredths of a centimeter).
C11_SuppliedFieldsConverted ==
    (Normalized /\ ExplicitMode(req) /\ NoUnknownFields(req)
        /\ req.canonical # {}) =>
        /\ IsRecord(resp)
        /\ \A f \in req.canonical :
              resp.measurements[CmName[f]] =
                  IF req.unit = "in" THEN req.values[f] * 254
                  ELSE req.values[f] * 100

\* C12: an explicit-measurement request that supplies only some of the 18
\* canonical fields still succeeds, and every canonical field it did not
\* supply appears in the normalized output with value 0.
C12_AbsentFieldsAreZero ==
    (Normalized /\ ExplicitMode(req) /\ NoUnknownFields(req)) =>
        /\ IsRecord(resp)
        /\ \A f \in CANONICAL_FIELDS \ req.canonical :
              /\ CmName[f] \in DOMAIN resp.measurements
              /\ resp.measurements[CmName[f]] = 0

\* C13: every normalized result produced from explicit user-supplied
\* measurements has source user_input, confidence 1.0 and accuracy_estimate
\* 0.0 (hundredths).
C13_UserInputMetadata ==
    (IsRecord(resp) /\ ExplicitMode(req)) =>
        /\ resp.source = "user_input"
        /\ resp.confidence = 100
        /\ resp.accuracy_estimate = 0

LandmarkMode(r) == r.front_landmarks.present /\ r.side_landmarks.present

ConfidenceTiers == {80, 85, 90, 95}

\* C14: for every landmark-derived result accuracy_estimate = 1 - confidence,
\* where confidence is the tier returned by estimate_accuracy (hundredths).
C14_AccuracyEstimateIsComplement ==
    (IsRecord(resp) /\ LandmarkMode(req)) =>
        /\ resp.confidence \in ConfidenceTiers
        /\ resp.accuracy_estimate = 100 - resp.confidence

FullSize(r) ==
    /\ r.front_landmarks.len >= LANDMARK_COUNT
    /\ r.side_landmarks.len >= LANDMARK_COUNT

\* C17: a request with both landmark sets (of full size) is normalized into
\* a record, and every record derived from landmarks has all 18 canonical
\* _cm fields, each >= 0, also when the ankle-to-nose distance is 0.
C17_LandmarkFieldsPresentNonNegative ==
    /\ (Normalized /\ LandmarkMode(req) /\ FullSize(req)) => IsRecord(resp)
    /\ (IsRecord(resp) /\ LandmarkMode(req)) =>
          /\ NormalizedCmFields \subseteq DOMAIN resp.measurements
          /\ \A n \in NormalizedCmFields : resp.measurements[n] >= 0

\* The degenerate input (all points coincide) has been normalized.
C17_Witness ==
    /\ IsRecord(resp)
    /\ LandmarkMode(req)
    /\ req.front_landmarks.landmarks = CoincidentPose
    /\ resp.measurements["height_cm"] = 0

IsValidationError(x) ==
    /\ x # NoRequest
    /\ x.kind = "HTTPException"
    /\ x.detail.type = "validation_error"

\* C19 as stated: a session_id carried by the request is echoed by the
\* normalized record and by the validation_error envelope; without one the
\* record carries a generated, non-empty session_id.
C19_SessionIdEchoedOrGenerated ==
    /\ (req.session_id # None /\ IsRecord(resp)) => resp.session_id = req.session_id
    /\ (req.session_id # None /\ IsValidationError(resp)) =>
            resp.detail.session_id = req.session_id
    /\ (req.session_id = None /\ IsRecord(resp)) =>
            resp.session_id \in UUIDs /\ resp.session_id # ""

\* C19 amended: a non-empty session_id carried by the request is echoed by
\* the normalized record and by the validation_error envelope; when the
\* request carries none, or an empty one, the record carries a generated,
\* non-empty session_id (the envelope echoes the empty one as it is).
C19_NonEmptySessionIdEchoedOrGenerated ==
    /\ (Truthy(req.session_id) /\ IsRecord(resp)) => resp.session_id = req.session_id
    /\ (req.session_id # None /\ IsValidationError(resp)) =>
            resp.detail.session_id = req.session_id
    /\ (~Truthy(req.session_id) /\ IsRecord(resp)) =>
            resp.session_id \in UUIDs /\ resp.session_id # ""

\* A request with an empty session_id got a record with a generated one.
C19_Witness ==
    /\ IsRecord(resp)
    /\ req.session_id = ""
    /\ resp.session_id \in UUIDs

\* C28: field-name validation is skipped only in landmark-derived mode, so
\* no normalized record with source user_input is ever returned for a
\* request containing an unknown field name, a request that carries exactly
\* one of the two landmark sets included.
C28_UserInputRecordHasKnownFields ==
    (Normalized /\ IsRecord(resp) /\ resp.source = "user_input") =>
        NoUnknownFields(req)

-----------------------------------------------------------------------------
(* Properties of estimate_accuracy, checked under AccSpec                   *)

Estimated == resp # NoRequest

\* Number of visibility scores of an input, their sum, and the sum over the
\* key landmarks of both sets (16 scores).
ScoreCount(in) == in.front_landmarks.len + in.side_landmarks.len

ScoreSum(in) == in.front_landmarks.visibility_sum + in.side_landmarks.visibility_sum

KeySum(in) == in.front_landmarks.key_sum + in.side_landmarks.key_sum

\* average visibility >= a/100 (resp. > a/100), key average >= k/100 (resp. >)
AtLeast(in, a, k) == ScoreSum(in) >= a * ScoreCount(in) /\ KeySum(in) >= k * 16

Above(in, a, k) == ScoreSum(in) > a * ScoreCount(in) /\ KeySum(in) > k * 16

InclusiveTier(in) ==
    IF AtLeast(in, 85, 90) THEN 95
    ELSE IF AtLeast(in, 70, 75) THEN 90
    ELSE IF AtLeast(in, 50, 60) THEN 85
    ELSE 80

StrictTier(in) ==
    IF Above(in, 85, 90) THEN 95
    ELSE IF Above(in, 70, 75) THEN 90
    ELSE IF Above(in, 50, 60) THEN 85
    ELSE 80

\* C15 as stated: the confidence is the first tier whose two thresholds are
\* both met, a value exactly on a threshold counting as meeting it.
C15_InclusiveTiers ==
    Estimated => resp.A = InclusiveTier(req.A)

\* C15 amended: the confidence is the first tier whose two thresholds are
\* both strictly exceeded; an average exactly on a threshold of a tier does
\* not reach that tier.
C15_StrictTiers ==
    Estimated => resp.A = StrictTier(req.A)

\* An input whose averages lie exactly on the 0.70/0.75 tier's key threshold
\* has been estimated.
C15_Witness ==
    /\ Estimated
    /\ KeySum(req.A) = 75 * 16
    /\ ScoreSum(req.A) > 70 * ScoreCount(req.A)
    /\ resp.A = 85

\* C16 as stated: a strictly higher average visibility never yields a
\* strictly lower confidence, whatever the key-landmark averages are.
C16_MonotoneInAverageAlone ==
    (Estimated /\ ScoreSum(req.A) * ScoreCount(req.B) > ScoreSum(req.B) * ScoreCount(req.A))
        => resp.A >= resp.B

\* C16 amended: when the average visibility of A is strictly higher than
\* that of B and the key-landmark average of A is at least that of B, the
\* confidence of A is not lower than the confidence of B.
C16_MonotoneInBothAverages ==
    (/\ Estimated
     /\ ScoreSum(req.A) * ScoreCount(req.B) > ScoreSum(req.B) * ScoreCount(req.A)
     /\ KeySum(req.A) >= KeySum(req.B))
        => resp.A >= resp.B

\* Two inputs in distinct tiers, A above B in both averages, were estimated.
C16_Witness ==
    /\ Estimated
    /\ ScoreSum(req.A) * ScoreCount(req.B) > ScoreSum(req.B) * ScoreCount(req.A)
    /\ KeySum(req.A) >= KeySum(req.B)
    /\ resp.A = 95
    /\ resp.B = 85

-----------------------------------------------------------------------------
(* Properties of repeated normalization, checked under RepeatSpec           *)

Repeated == prev_resp # NoRequest

\* The fields of a record that are computed from the request alone.
ComputedFields(rec) ==
    [measurements |-> rec.measurements,
     source |-> rec.source,
     model_version |-> rec.model_version,
     confidence |-> rec.confidence,
     accuracy_estimate |-> rec.accuracy_estimate]

\* C18 as stated: two invocations on the identical landmark request produce
\* identical records, field for field, session_id and the front/side
\* landmark identifiers included.
C18_RepeatedRecordsIdentical ==
    (Repeated /\ LandmarkMode(req)) => resp = prev_resp

\* C18 amended: two invocations on the identical landmark request either
\* both fail alike or produce records with identical measurements, source,
\* confidence, accuracy_estimate and model_version, and with the identical
\* session_id when the request carries a non-empty one; the landmark
\* identifiers and a generated session_id are drawn anew by each invocation.
C18_RepeatedRecordsAgreeOnComputedFields ==
    (Repeated /\ LandmarkMode(req)) =>
        IF IsRecord(prev_resp)
        THEN /\ IsRecord(resp)
             /\ ComputedFields(resp) = ComputedFields(prev_resp)
             /\ Truthy(req.session_id) => resp.session_id = prev_resp.session_id
        ELSE resp = prev_resp

\* Two records of one landmark request that differ in a landmark identifier.
C18_Witness ==
    /\ Repeated
    /\ LandmarkMode(req)
    /\ IsRecord(resp)
    /\ IsRecord(prev_resp)
    /\ Truthy(req.session_id)
    /\ resp.front_landmarks_id # prev_resp.front_landmarks_id

-----------------------------------------------------------------------------
(* Properties of the router, checked under ApiSpec                          *)

Answered == resp # NoRequest

\* C20: a request to either endpoint whose X-API-Key header is missing or
\* differs from the configured key is answered 401 with an
\* authentication_error envelope whatever its body is, and neither
\* normalization nor recommendation is performed for it.
C20_BadKeyAnswered401 ==
    (Answered /\ req.x_api_key # VALID_API_KEY) =>
        /\ resp.status_code = 401
        /\ resp.body.detail.type = "authentication_error"
        /\ performed = <<>>

\* A recommend request without the header and with a body that misses
\* required fields has been answered.
C20_Witness ==
    /\ Answered
    /\ req.endpoint = "/measurements/recommend"
    /\ req.x_api_key = None
    /\ ~req.body.valid
    /\ resp.status_code = 401

\* The request came with the configured key and a body that parsed, so the
\* endpoint function validate_measurements ran.
ValidateRan ==
    /\ Answered
    /\ req.endpoint = "/measurements/validate"
    /\ req.x_api_key = VALID_API_KEY
    /\ req.body.valid

\* A landmark set is shorter than the indices normalization reads.
ShortLandmarks(r) ==
    /\ LandmarkMode(r)
    /\ \/ r.front_landmarks.len <= MaxIndexRead
       \/ r.side_landmarks.len <= MaxIndexRead

\* The explicit branch is taken with some canonical field missing, so the
\* normalized record cannot be constructed.
RecordIncomplete(r) ==
    /\ ~LandmarkMode(r)
    /\ ~(ExplicitMode(r) /\ ~NoUnknownFields(r))
    /\ r.canonical # CANONICAL_FIELDS

\* C27: a failure inside normalization other than the unknown-field error
\* (a landmark set that is too short, a record that cannot be constructed)
\* is answered by the validate endpoint with a 500 server_error envelope of
\* code internal, carrying the failure and the request's session_id; it
\* never gives a 200 and is never dropped.
C27_InternalFailureIs500 ==
    (ValidateRan /\ (ShortLandmarks(req.body.model) \/ RecordIncomplete(req.body.model))) =>
        /\ resp.status_code = 500
        /\ resp.body.detail.type = "server_error"
        /\ resp.body.detail.code = "internal"
        /\ Len(resp.body.detail.errors) = 1
        /\ resp.body.detail.session_id = req.body.model.session_id
        /\ performed = <<"normalize_and_validate">>

\* A request with a 10-point landmark set has been answered 500.
C27_Witness ==
    /\ ValidateRan
    /\ ShortLandmarks(req.body.model)
    /\ resp.status_code = 500
    /\ resp.body.detail.errors[1].message = "IndexError"

\* A request whose record cannot be constructed has been answered 500.
C27_WitnessIncomplete ==
    /\ ValidateRan
    /\ RecordIncomplete(req.body.model)
    /\ resp.status_code = 500
====
